---- MODULE Spec2Model ----
(***************************************************************************)
(* ghafuse: a read-only FUSE filesystem over the releases of a GitHub      *)
(* repository.  The model covers the tree built by GhaFs::new              *)
(* (generate_release_mappings) and the protocol handlers of                *)
(* `impl Filesystem for GhaFs` in src/src/main.rs.                         *)
(*                                                                         *)
(* A std::collections::HashMap is modelled by its content (a function from *)
(* keys to values) together with its iteration order: an arbitrary         *)
(* permutation of the keys that is chosen when the map is built and stays  *)
(* the same for as long as the map is not modified.                        *)
(***************************************************************************)
EXTENDS Integers, Sequences, FiniteSets

\* ---------------------------------------------------------------- bounds

\* Remote (GitHub) ids of releases and assets range over 0..MaxRemoteId.
MaxRemoteId == 2

RemoteIds == 0..MaxRemoteId
\* The tag names and the asset file names of the catalogs.
TagNames == {"v1", "v2"}
AssetNames == {"a", "b"}
\* A catalog holds as many releases as there are tag names, at most, and
\* as many assets in all as there are asset names; tags, names and ids may
\* repeat.
MaxReleases == Cardinality(TagNames)
MaxAssets == Cardinality(AssetNames)
\* A file name that is not valid UTF-8: the byte 0xFF.
NonUtf8Names == {"\\xFF"}
\* The names the host looks up: under ROOT an asset name is the name of no
\* child, and so is a tag name under a TAG; a name is any sequence of
\* bytes.
LookupNames == TagNames \cup AssetNames \cup NonUtf8Names

\* Inode numbers the host may ask about: every id a node can get
\* (remote id + 1), and MaxRemoteId + 2, which no node ever gets.
Inos == 1..(MaxRemoteId + 2)

\* Directory offsets the host may pass: negative, zero, and up to the
\* length of the longest listing (the children plus `.` and `..`).
LongestListing ==
    (IF Cardinality(TagNames) > Cardinality(AssetNames)
     THEN Cardinality(TagNames) ELSE Cardinality(AssetNames)) + 2
DirOffsets == (0 - 1)..LongestListing

\* ------------------------------------------------------------- constants

\* libc::ENOENT
ENOENT == 2
\* The root inode of the FUSE protocol, ino of HELLO_DIR_ATTR.
ROOT_INO == 1
\* create_file_attr: the declared size of every file.
FILE_SIZE == 13

\* ------------------------------------------------------------ the catalog

\* github::Asset (the fields the filesystem reads).
Asset == [id : RemoteIds, name : AssetNames]

\* Vec<Asset>, the asset list of a release.
AssetSeqs == UNION {[1..n -> Asset] : n \in 0..MaxAssets}

\* github::Release (the fields the filesystem reads).
Release == [id : RemoteIds, tag_name : TagNames, assets : AssetSeqs]

\* The number of assets of all the releases of a catalog.
RECURSIVE TotalAssets(_)
TotalAssets(c) ==
    IF c = <<>> THEN 0 ELSE Len(c[1].assets) + TotalAssets(Tail(c))

\* github::Releases, a Vec<Release>: the code puts no condition on it.  Two
\* releases may carry the same tag name or the same remote id, two assets
\* the same name or the same remote id, and any of them the id 0.
Catalogs ==
    {c \in UNION {[1..n -> Release] : n \in 0..MaxReleases} :
        TotalAssets(c) <= MaxAssets}

\* ------------------------------------------------------------- the tree

\* IdOffset::new
IdOffset(id, offset) == [id |-> id, offset |-> offset]

\* ReleaseMapping::new
ReleaseMapping(id_offset, asset_mappings) ==
    [id_offset |-> id_offset, asset_mappings |-> asset_mappings]

\* Iterator::collect into a HashMap: the pairs are inserted in order, and a
\* later pair replaces the value of an earlier pair with the same key.
Collect(pairs) ==
    LET keys == {pairs[i][1] : i \in 1..Len(pairs)}
        last(k) == CHOOSE i \in 1..Len(pairs) :
                      /\ pairs[i][1] = k
                      /\ \A j \in 1..Len(pairs) : pairs[j][1] = k => j <= i
    IN [k \in keys |-> pairs[last(k)][2]]

\* The value of the counter `offset` of generate_release_mappings when the
\* closure starts on release r: every earlier release added one per asset
\* and one for itself.
RECURSIVE OffsetBefore(_, _)
OffsetBefore(releases, r) ==
    IF r <= 1 THEN 0
    ELSE OffsetBefore(releases, r - 1) + Len(releases[r - 1].assets) + 1

\* The inner map/collect of generate_release_mappings over one release's
\* assets, the counter being `offset` when it starts.
AssetMappingsOf(assets, offset) ==
    Collect([i \in 1..Len(assets) |->
                <<assets[i].name, IdOffset(assets[i].id + 1, offset + i)>>])

\* generate_release_mappings: the content of the map it returns.
GenerateReleaseMappings(releases) ==
    Collect([r \in 1..Len(releases) |->
        LET before == OffsetBefore(releases, r)
            assets == releases[r].assets
        IN <<releases[r].tag_name,
             ReleaseMapping(
                 IdOffset(releases[r].id + 1, before + Len(assets) + 1),
                 AssetMappingsOf(assets, before))>>])

\* The orders in which a HashMap with key set S may iterate.
IterOrders(S) ==
    {s \in [1..Cardinality(S) -> S] :
        \A i, j \in 1..Cardinality(S) : i # j => s[i] # s[j]}

\* --------------------------------------------------------------- state

VARIABLES
    pc,                \* "start": before GhaFs::new; "idle": mounted, waiting
                       \* for a call; "replied": a handler has replied;
                       \* "panicked": GhaFs::new or a handler panicked, the
                       \* process is gone
    releases,          \* the catalog GitHub::releases returned
    release_mappings,  \* GhaFs.release_mappings, the content of the map
    tag_iter,          \* the iteration order of release_mappings
    asset_iter,        \* per tag, the iteration order of its asset_mappings
    call,              \* the protocol call being served
    reply,             \* what the handler passed to its reply object
    creds,             \* GitHub.creds
    etags,             \* GitHub.etags: endpoint -> EtagCache
    gh_pc,             \* "idle": no fetch under way; "sent": the request is
                       \* with the server; "received": req.send() returned;
                       \* "panicked": the fetch panicked; "dropped": the
                       \* client is no more
    req,               \* the request cached_get built
    rsp,               \* what req.send() returned
    fetched,           \* the fetches that ended, in order: the endpoint,
                       \* the response and what GitHub::releases returned
    h_pc,              \* the host: "closed", "paging" or "done"
    h_dir,             \* the directory the host enumerates
    h_offset,          \* the offset of the host's next readdir
    h_received         \* the entries the host has received, in order

fs == <<pc, releases, release_mappings, tag_iter, asset_iter, call, reply>>

gh == <<creds, etags, gh_pc, req, rsp, fetched>>

host == <<h_pc, h_dir, h_offset, h_received>>

vars == <<fs, gh, host>>

tree == <<releases, release_mappings, tag_iter, asset_iter>>

\* ----------------------------------------------------------- attributes

NoAttr == [ino |-> 0, size |-> 0, blocks |-> 0, kind |-> "None",
           perm |-> 0, nlink |-> 0]

\* HELLO_DIR_ATTR (perm 0o755)
HELLO_DIR_ATTR == [ino |-> ROOT_INO, size |-> 0, blocks |-> 0,
                   kind |-> "Directory", perm |-> 493, nlink |-> 2]

\* create_file_attr (perm 0o644)
create_file_attr(ino) == [ino |-> ino, size |-> FILE_SIZE, blocks |-> 1,
                          kind |-> "RegularFile", perm |-> 420, nlink |-> 1]

\* create_dir_attr
create_dir_attr(ino) == [ino |-> ino, size |-> 0, blocks |-> 1,
                         kind |-> "Directory", perm |-> 493, nlink |-> 2]

\* -------------------------------------------------------------- replies

NoCall == [op |-> "none", ino |-> 0, name |-> "", offset |-> 0]
NoReply == [type |-> "none", attr |-> NoAttr, entries |-> <<>>, errno |-> 0,
            data |-> <<>>]

\* reply.entry(&TTL, attr, 0)
ReplyEntry(attr) == [NoReply EXCEPT !.type = "entry", !.attr = attr]
\* reply.attr(&TTL, attr)
ReplyAttr(attr) == [NoReply EXCEPT !.type = "attr", !.attr = attr]
\* reply.error(errno)
ReplyError(errno) == [NoReply EXCEPT !.type = "error", !.errno = errno]
\* the reply.add calls of one readdir, in order, closed by reply.ok()
ReplyDirectory(entries) == [NoReply EXCEPT !.type = "dir", !.entries = entries]

\* reply.data(bytes)
ReplyData(bytes) == [NoReply EXCEPT !.type = "data", !.data = bytes]
\* The handler panicked before it used its reply object: the panic unwinds
\* through the session loop of fuse::mount and ends the process.
Panicked == [NoReply EXCEPT !.type = "panic"]

\* One element of `entries` in readdir, as handed to reply.add.
DirEntry(id_offset, kind, name) ==
    [id |-> id_offset.id, offset |-> id_offset.offset,
     kind |-> kind, name |-> name]

\* ------------------------------------------------------------- handlers

\* find_release_mapping: the first value, in the map's iteration order,
\* whose id is `id`; the result is the tag it is stored under, in a set
\* that is empty for None.
find_release_mapping(mappings, order, id) ==
    LET hits == {i \in 1..Len(order) : mappings[order[i]].id_offset.id = id}
    IN IF hits = {} THEN {}
       ELSE {order[CHOOSE i \in hits : \A j \in hits : i <= j]}

\* OsStr::to_str: the name when it is valid UTF-8, in a set that is empty
\* for None.
OsStrToStr(name) == IF name \in NonUtf8Names THEN {} ELSE {name}

\* A lookup whose ROOT branch replies with the inode of the directory that
\* was searched instead of the inode of the tag that was found.
LookupReplyParentIno(parent, name) ==
    IF parent = 1
    THEN IF OsStrToStr(name) = {} THEN Panicked
         ELSE IF name \in DOMAIN release_mappings
         THEN ReplyEntry(create_dir_attr(parent))
         ELSE ReplyError(ENOENT)
    ELSE LET found == find_release_mapping(release_mappings, tag_iter, parent)
         IN IF found # {}
            THEN LET t == CHOOSE t \in found : TRUE
                 IN ReplyEntry(create_file_attr(release_mappings[t].id_offset.id))
            ELSE ReplyError(ENOENT)

\* GhaFs::lookup.  Under ROOT the name goes through to_str().expect(..),
\* which panics on a name that is not valid UTF-8; under another parent the
\* name is not read.
LookupReply(parent, name) ==
    IF parent = 1
    THEN LET str == OsStrToStr(name)
         IN IF str = {} THEN Panicked
            ELSE LET key == CHOOSE k \in str : TRUE
                 IN IF key \in DOMAIN release_mappings
                    THEN ReplyEntry(create_dir_attr(
                            release_mappings[key].id_offset.id))
                    ELSE ReplyError(ENOENT)
    ELSE LET found == find_release_mapping(release_mappings, tag_iter, parent)
         IN IF found # {}
            THEN LET t == CHOOSE t \in found : TRUE
                 IN ReplyEntry(create_file_attr(release_mappings[t].id_offset.id))
            ELSE ReplyError(ENOENT)

\* GhaFs::getattr
GetattrReply(ino) ==
    IF ino = 1 THEN ReplyAttr(HELLO_DIR_ATTR)
    ELSE ReplyAttr(create_file_attr(ino))

\* Iterator::chain(once(x))
ChainOnce(s, x) == Append(s, x)

\* The `entries` vector of GhaFs::readdir.
ReaddirEntries(ino) ==
    IF ino = 1
    THEN ChainOnce(ChainOnce(
             [i \in 1..Len(tag_iter) |->
                 DirEntry(release_mappings[tag_iter[i]].id_offset,
                          "Directory", tag_iter[i])],
             DirEntry(IdOffset(1, 1), "Directory", ".")),
             DirEntry(IdOffset(1, 1), "Directory", ".."))
    ELSE LET found == find_release_mapping(release_mappings, tag_iter, ino)
         IN IF found # {}
            THEN LET t == CHOOSE t \in found : TRUE
                     m == release_mappings[t]
                     order == asset_iter[t]
                 IN ChainOnce(ChainOnce(
                        [i \in 1..Len(order) |->
                            DirEntry(m.asset_mappings[order[i]],
                                     "RegularFile", order[i])],
                        DirEntry(IdOffset(ino, m.id_offset.offset),
                                 "Directory", ".")),
                        DirEntry(IdOffset(1, 1), "Directory", ".."))
            ELSE <<>>

\* entries.into_iter().skip(offset as usize): `offset` is an i64 and usize
\* has 64 bits, so a negative offset becomes a count of at least 2^63, more
\* than any vector holds, and nothing is left.
IterSkip(entries, offset) ==
    IF offset < 0 THEN <<>>
    ELSE SubSeq(entries, offset + 1, Len(entries))

\* A readdir that resumes after the entry whose attached offset is `offset`
\* instead of after the first `offset` entries.
ReaddirReplyByEntryOffset(ino, offset) ==
    LET entries == ReaddirEntries(ino)
        RECURSIVE After(_)
        After(i) ==
            IF i > Len(entries) THEN <<>>
            ELSE IF entries[i].offset > offset
                 THEN <<entries[i]>> \o After(i + 1)
                 ELSE After(i + 1)
    IN ReplyDirectory(After(1))

\* GhaFs::readdir
ReaddirReply(ino, offset) ==
    ReplyDirectory(IterSkip(ReaddirEntries(ino), offset))

\* HELLO_TXT_CONTENT, byte by byte
HELLO_TXT_CONTENT == <<"H", "e", "l", "l", "o", "W", "o", "r", "l", "d">>

\* The decimal digits of a u64, as format!("{}", ino) writes them.
RECURSIVE Decimal(_)
Decimal(n) ==
    LET digit(d) == <<"0", "1", "2", "3", "4", "5", "6", "7", "8", "9">>[d + 1]
    IN IF n < 10 THEN <<digit(n)>>
       ELSE Append(Decimal(n \div 10), digit(n % 10))

\* format!("{}-{}\n", HELLO_TXT_CONTENT, ino).as_bytes()
Content(ino) == HELLO_TXT_CONTENT \o <<"-">> \o Decimal(ino) \o <<"\n">>

\* bytes[offset as usize..]: `offset` is an i64; a negative one becomes a
\* start of at least 2^63.  A start beyond the length of the slice panics,
\* a start equal to the length gives the empty slice.  The result is a set
\* holding the slice, empty when the indexing panics.
SliceFrom(bytes, offset) ==
    IF offset < 0 \/ offset > Len(bytes) THEN {}
    ELSE {SubSeq(bytes, offset + 1, Len(bytes))}

\* GhaFs::read
ReadReply(ino, offset) ==
    IF ino # 1
    THEN LET slice == SliceFrom(Content(ino), offset)
         IN IF slice = {} THEN Panicked
            ELSE ReplyData(CHOOSE bytes \in slice : TRUE)
    ELSE ReplyError(ENOENT)

\* Byte offsets the host may pass to read: negative, zero, inside the
\* content, its length, and past its length.
LongestContent == Len(Content(MaxRemoteId + 2))
ReadOffsets == {0 - 1, 0, 1, LongestContent, LongestContent + 1}

\* ------------------------------------------------------- catalog client

\* How many fetches one client makes.
MaxFetches == 3

\* Strings that are put together or taken apart are sequences of pieces.
Owners == {<<"o">>}
Repos == {<<"r">>, <<"s">>}

GITHUB_API_URL == <<"https://api.github.com">>

\* format!("repos/{}/{}/releases", owner, repo)
Endpoint(owner, repo) ==
    <<"repos", "/">> \o owner \o <<"/">> \o repo \o <<"/", "releases">>

Endpoints == {Endpoint(owner, repo) : owner \in Owners, repo \in Repos}

\* Option<Credentials>: None, or Some of Credentials::new(username, password)
NoCreds == [some |-> FALSE, username |-> "", password |-> ""]
Credentials(username, password) ==
    [some |-> TRUE, username |-> username, password |-> password]
CredsOptions == {NoCreds, Credentials("u", "p")}

\* StatusCode::OK, StatusCode::NOT_MODIFIED, and one of the other statuses
OK == 200
NOT_MODIFIED == 304
FORBIDDEN == 403

\* The values of an ETag header: two that are visible ASCII, and one that
\* holds the byte 0xFF.  An optional header is the set of its values:
\* empty, or one value.
Etags == {"e1", "e2"}
NonAsciiEtags == {"\\xFF"}
EtagHeaders == {{}} \cup {{e} : e \in Etags \cup NonAsciiEtags}

\* HeaderValue::to_str: the value when it is visible ASCII, in a set that
\* is empty for Err.
HeaderToStr(value) == IF value \in NonAsciiEtags THEN {} ELSE {value}

\* serde_json::Value: null, a boolean, a number (an integer, or one with a
\* fraction, kept as its text), a string, an array of values, or an object,
\* a function from the names of its fields to their values.
JsonValue(kind, str, num, items, fields) ==
    [kind |-> kind, str |-> str, num |-> num, items |-> items, fields |-> fields]
JsonNull == JsonValue("null", "", 0, <<>>, <<>>)
JsonBool(b) == JsonValue("bool", "", IF b THEN 1 ELSE 0, <<>>, <<>>)
JsonNumber(n) == JsonValue("number", "", n, <<>>, <<>>)
JsonFloat(text) == JsonValue("float", text, 0, <<>>, <<>>)
JsonString(text) == JsonValue("string", text, 0, <<>>, <<>>)
JsonArray(items) == JsonValue("array", "", 0, items, <<>>)
JsonObject(fields) == JsonValue("object", "", 0, <<>>, fields)

\* The fields of github::Asset and of github::Release, in the order the
\* structs declare them.
AssetFieldOrder ==
    <<"url", "id", "name", "content_type", "size", "browser_download_url">>
ReleaseFieldOrder ==
    <<"url", "id", "tag_name", "created_at", "published_at", "assets">>

\* The strings of the model that are RFC 3339 dates, which is what chrono
\* takes for a DateTime<Utc>.
Rfc3339Dates == {"2019-01-01T00:00:00Z", "2019-06-30T12:00:00+02:00"}

\* An asset object and a release object as the server writes them.  A
\* release object carries fields that github::Release does not have.
JsonAsset(id, name) ==
    JsonObject(
        [url |-> JsonString("https://a"), id |-> JsonNumber(id),
         name |-> JsonString(name),
         content_type |-> JsonString("application/octet-stream"),
         size |-> JsonNumber(0),
         browser_download_url |-> JsonString("https://d")])

JsonRelease(id, tag_name, assets) ==
    JsonObject(
        [url |-> JsonString("https://r"), id |-> JsonNumber(id),
         tag_name |-> JsonString(tag_name),
         created_at |-> JsonString("2019-01-01T00:00:00Z"),
         published_at |-> JsonString("2019-06-30T12:00:00+02:00"),
         assets |-> JsonArray(assets), draft |-> JsonBool(FALSE)])

\* The array of release objects the server writes for a catalog.
ToJson(catalog) ==
    JsonArray([i \in 1..Len(catalog) |->
        JsonRelease(catalog[i].id, catalog[i].tag_name,
            [j \in 1..Len(catalog[i].assets) |->
                JsonAsset(catalog[i].assets[j].id, catalog[i].assets[j].name)])])

\* A response body: text that is JSON, with the value it parses to, or
\* text that is not.
Body(json, value) == [json |-> json, value |-> value]
NoBody == Body(FALSE, JsonNull)
\* The bodies a fetch may get: no release; one release with one asset; a
\* release that is not published yet, its published_at being null; a
\* release written as the array of its fields; an object; text that is no
\* JSON.
Bodies ==
    { Body(TRUE, JsonArray(<<>>)),
      Body(TRUE, JsonArray(<<JsonRelease(1, "v1", <<JsonAsset(2, "a")>>)>>)),
      Body(TRUE, JsonArray(<<JsonObject(
            [JsonRelease(1, "v1", <<>>).fields
                EXCEPT !.published_at = JsonNull])>>)),
      Body(TRUE, JsonArray(<<JsonArray(
            <<JsonString("https://r"), JsonNumber(2), JsonString("v2"),
              JsonString("2019-01-01T00:00:00Z"),
              JsonString("2019-01-01T00:00:00Z"), JsonArray(<<>>)>>)>>)),
      Body(TRUE, JsonObject([message |-> JsonString("Not Found")])),
      NoBody }

\* What req.send() returns: a response with a status, an optional ETag
\* header and a body, or a send error.
Response(status, etag, body) ==
    [sent |-> TRUE, status |-> status, etag |-> etag, body |-> body]
SendError == [sent |-> FALSE, status |-> 0, etag |-> {}, body |-> NoBody]
Responses ==
    {Response(OK, etag, body) : etag \in EtagHeaders, body \in Bodies}
        \cup {Response(NOT_MODIFIED, {}, NoBody),
              Response(FORBIDDEN, {}, NoBody),
              SendError}

\* EtagCache::new
EtagCache(hash, content) == [hash |-> hash, content |-> content]

\* HashMap::insert
Insert(map, key, value) ==
    [k \in DOMAIN map \cup {key} |-> IF k = key THEN value ELSE map[k]]

\* The request of cached_get: basic credentials when the client has some,
\* If-None-Match with the cached hash when etags holds the endpoint.
BuildRequestBare(c, cache, endpoint) ==
    [endpoint |-> endpoint,
     url |-> GITHUB_API_URL \o <<"/">> \o endpoint,
     basic_auth |-> IF c.some THEN {<<c.username, c.password>>} ELSE {},
     if_none_match |-> {}]

BuildRequest(c, cache, endpoint) ==
    [endpoint |-> endpoint,
     url |-> GITHUB_API_URL \o <<"/">> \o endpoint,
     basic_auth |-> IF c.some THEN {<<c.username, c.password>>} ELSE {},
     if_none_match |->
        IF endpoint \in DOMAIN cache THEN {cache[endpoint].hash} ELSE {}]

NoRequest == BuildRequest(NoCreds, <<>>, <<>>)

\* What a call returns: Ok of a value, Err of an error, or nothing, the
\* call having panicked with a message.
Ok(value) == [kind |-> "Ok", value |-> value, error |-> <<>>]
Err(error) == [kind |-> "Err", value |-> <<>>, error |-> error]
Unwound(message) == [kind |-> "panic", value |-> <<>>, error |-> <<message>>]

\* etags after cached_get: an OK response whose body is JSON and that
\* carries an ETag that is a string stores (hash, content) under the
\* endpoint.
EtagsAfterAnyOk(cache, endpoint, r) ==
    IF r.sent /\ r.status = OK /\ r.body.json
    THEN Insert(cache, endpoint,
                EtagCache(IF r.etag = {} THEN "" ELSE CHOOSE e \in r.etag : TRUE,
                          r.body.value))
    ELSE cache

EtagsAfter(cache, endpoint, r) ==
    IF /\ r.sent /\ r.status = OK /\ r.body.json /\ r.etag # {}
       /\ HeaderToStr(CHOOSE e \in r.etag : TRUE) # {}
    THEN Insert(cache, endpoint,
                EtagCache(CHOOSE hash \in HeaderToStr(CHOOSE e \in r.etag : TRUE) : TRUE,
                          r.body.value))
    ELSE cache

\* What cached_get returns.  The OK arm parses the body first and then
\* reads the ETag: each of the two may panic.
CachedGet(cache, endpoint, r) ==
    IF ~r.sent THEN Unwound("Send error")
    ELSE IF r.status = OK THEN
        IF ~r.body.json THEN Unwound("JSON conversion error")
        ELSE IF r.etag # {} /\ HeaderToStr(CHOOSE e \in r.etag : TRUE) = {}
        THEN Unwound("ETAG string conversion error")
        ELSE Ok(r.body.value)
    ELSE IF r.status = NOT_MODIFIED THEN
        IF endpoint \in DOMAIN cache THEN Ok(cache[endpoint].content)
        ELSE Unwound("not implemented")
    ELSE Unwound("not implemented")

\* serde_json::from_value::<Releases>.  A struct is read from an object
\* that has its fields, further fields being dropped, or from an array of
\* exactly its fields in their order; every field must have the type the
\* struct declares.  The value of a field is a set, empty when the item
\* does not hold the field.
StructField(item, order, k) ==
    IF item.kind = "object"
    THEN IF order[k] \in DOMAIN item.fields
         THEN {item.fields[order[k]]} ELSE {}
    ELSE IF item.kind = "array" /\ Len(item.items) = Len(order)
         THEN {item.items[k]} ELSE {}

\* String; u32 and u64 (the integers of the model are all below 2^31);
\* DateTime<Utc>.
IsString(value) == value.kind = "string"
IsUnsigned(value) == value.kind = "number" /\ value.num >= 0
IsDate(value) == value.kind = "string" /\ value.str \in Rfc3339Dates

\* Deserialize for Asset
DecodesAsAsset(item) ==
    /\ \E v \in StructField(item, AssetFieldOrder, 1) : IsString(v)
    /\ \E v \in StructField(item, AssetFieldOrder, 2) : IsUnsigned(v)
    /\ \E v \in StructField(item, AssetFieldOrder, 3) : IsString(v)
    /\ \E v \in StructField(item, AssetFieldOrder, 4) : IsString(v)
    /\ \E v \in StructField(item, AssetFieldOrder, 5) : IsUnsigned(v)
    /\ \E v \in StructField(item, AssetFieldOrder, 6) : IsString(v)

\* Vec<Asset>
IsAssets(value) ==
    /\ value.kind = "array"
    /\ \A j \in DOMAIN value.items : DecodesAsAsset(value.items[j])

\* Deserialize for Release
DecodesAsRelease(item) ==
    /\ \E v \in StructField(item, ReleaseFieldOrder, 1) : IsString(v)
    /\ \E v \in StructField(item, ReleaseFieldOrder, 2) : IsUnsigned(v)
    /\ \E v \in StructField(item, ReleaseFieldOrder, 3) : IsString(v)
    /\ \E v \in StructField(item, ReleaseFieldOrder, 4) : IsDate(v)
    /\ \E v \in StructField(item, ReleaseFieldOrder, 5) : IsDate(v)
    /\ \E v \in StructField(item, ReleaseFieldOrder, 6) : IsAssets(v)

\* The decoded field of an item that decodes.
Decoded(item, order, k) == CHOOSE v \in StructField(item, order, k) : TRUE

\* Of the fields of the structs the ones the filesystem reads are kept.
FromValue(content) ==
    IF /\ content.kind = "array"
       /\ \A i \in DOMAIN content.items : DecodesAsRelease(content.items[i])
    THEN Ok([i \in 1..Len(content.items) |->
            LET item == content.items[i]
                assets == Decoded(item, ReleaseFieldOrder, 6).items
            IN [id |-> Decoded(item, ReleaseFieldOrder, 2).num,
                tag_name |-> Decoded(item, ReleaseFieldOrder, 3).str,
                assets |->
                    [j \in 1..Len(assets) |->
                        [id |-> Decoded(assets[j], AssetFieldOrder, 2).num,
                         name |-> Decoded(assets[j], AssetFieldOrder, 3).str]]]])
    ELSE Err(<<"DecodeError">>)

\* What GitHub::releases returns.
ReleasesResult(cache, endpoint, r) ==
    LET content == CachedGet(cache, endpoint, r)
    IN IF content.kind = "Ok" THEN FromValue(content.value) ELSE content

\* What the fetch of GhaFs::new may get: any of Responses, or an OK
\* response with the array of a catalog.
MountResponses ==
    Responses \cup
        {Response(OK, {}, Body(TRUE, ToJson(catalog))) : catalog \in Catalogs}

\* The client and the host before they do anything.
NoResponse == SendError

ClientNew(c) ==
    /\ creds = c
    /\ etags = <<>>
    /\ gh_pc = "idle"
    /\ req = NoRequest
    /\ rsp = NoResponse
    /\ fetched = <<>>

HostClosed ==
    /\ h_pc = "closed"
    /\ h_dir = 0
    /\ h_offset = 0
    /\ h_received = <<>>

\* -------------------------------------------------------------- actions

\* inner_main before GhaFs::new: the client is made by GitHub::with_creds
\* when both a user name and a password are given, by GitHub::new
\* otherwise.
Init ==
    /\ pc = "start"
    /\ releases = <<>>
    /\ release_mappings = <<>>
    /\ tag_iter = <<>>
    /\ asset_iter = <<>>
    /\ call = NoCall
    /\ reply = NoReply
    /\ \E c \in CredsOptions : ClientNew(c)
    /\ HostClosed

\* GhaFs::new: fetch the catalog, with the request cached_get builds from
\* the client, and build the tree from it.  When state.releases(..) panics
\* or returns Err, which .expect(..) turns into a panic, nothing is built
\* and nothing is mounted.  The client is moved into GhaFs::new and dropped
\* when it ends: nothing of it, its credentials and its cache, is left.
GhaFsNew ==
    /\ pc = "start"
    /\ gh_pc = "idle"
    /\ \E owner \in Owners, repo \in Repos, r \in MountResponses :
        \E request \in {BuildRequest(creds, etags, Endpoint(owner, repo))} :
        \E result \in {ReleasesResult(etags, request.endpoint, r)} :
           IF result.kind = "Ok"
           THEN \E mappings \in {GenerateReleaseMappings(result.value)} :
                   /\ releases' = result.value
                   /\ release_mappings' = mappings
                   /\ tag_iter' \in IterOrders(DOMAIN mappings)
                   /\ asset_iter' \in
                        {f \in [DOMAIN mappings ->
                                    UNION {IterOrders(S) : S \in SUBSET AssetNames}] :
                            \A t \in DOMAIN mappings :
                                f[t] \in IterOrders(DOMAIN mappings[t].asset_mappings)}
                   /\ pc' = "idle"
           ELSE /\ pc' = "panicked"
                /\ UNCHANGED tree
    /\ creds' = NoCreds
    /\ etags' = <<>>
    /\ gh_pc' = "dropped"
    /\ req' = NoRequest
    /\ rsp' = NoResponse
    /\ fetched' = <<>>
    /\ UNCHANGED <<call, reply, host>>

\* GhaFs::lookup(parent, name)
Lookup ==
    /\ pc = "idle"
    /\ \E parent \in Inos, name \in LookupNames :
        /\ call' = [NoCall EXCEPT !.op = "lookup", !.ino = parent, !.name = name]
        /\ reply' = LookupReply(parent, name)
        /\ pc' = IF LookupReply(parent, name) = Panicked
                 THEN "panicked" ELSE "replied"
    /\ UNCHANGED <<tree, gh, host>>

\* GhaFs::getattr(ino)
Getattr ==
    /\ pc = "idle"
    /\ \E ino \in Inos :
        /\ call' = [NoCall EXCEPT !.op = "getattr", !.ino = ino]
        /\ reply' = GetattrReply(ino)
    /\ pc' = "replied"
    /\ UNCHANGED <<tree, gh, host>>

\* A readdir that collects release_mappings anew from the releases it
\* holds before it lists them, so that the map iterates in a fresh order.
ReaddirRebuild ==
    /\ pc = "idle"
    /\ \E ino \in Inos, offset \in DirOffsets :
        /\ call' = [NoCall EXCEPT !.op = "readdir", !.ino = ino, !.offset = offset]
        /\ reply' = ReaddirReply(ino, offset)
    /\ pc' = "replied"
    /\ tag_iter' \in IterOrders(DOMAIN release_mappings)
    /\ UNCHANGED <<releases, release_mappings, asset_iter, gh, host>>

\* GhaFs::readdir(ino, offset)
Readdir ==
    /\ pc = "idle"
    /\ \E ino \in Inos, offset \in DirOffsets :
        /\ call' = [NoCall EXCEPT !.op = "readdir", !.ino = ino, !.offset = offset]
        /\ reply' = ReaddirReply(ino, offset)
    /\ pc' = "replied"
    /\ UNCHANGED <<tree, gh, host>>

\* GhaFs::read(ino, offset)
Read ==
    /\ pc = "idle"
    /\ \E ino \in Inos, offset \in ReadOffsets :
        /\ call' = [NoCall EXCEPT !.op = "read", !.ino = ino, !.offset = offset]
        /\ reply' = ReadReply(ino, offset)
        /\ pc' = IF ReadReply(ino, offset) = Panicked THEN "panicked" ELSE "replied"
    /\ UNCHANGED <<tree, gh, host>>

\* The handler returns and the session loop of fuse::mount waits for the
\* next call.
Return ==
    /\ pc = "replied"
    /\ pc' = "idle"
    /\ call' = NoCall
    /\ reply' = NoReply
    /\ UNCHANGED <<tree, gh, host>>

Next ==
    \/ GhaFsNew
    \/ Lookup
    \/ Getattr
    \/ Readdir
    \/ Read
    \/ Return

Spec == Init /\ [][Next]_vars

\* ------------------------------------------- the catalog client's fetches

\* A client made by GitHub::new or GitHub::with_creds, before the
\* filesystem exists.
InitClient ==
    /\ pc = "start"
    /\ releases = <<>>
    /\ release_mappings = <<>>
    /\ tag_iter = <<>>
    /\ asset_iter = <<>>
    /\ call = NoCall
    /\ reply = NoReply
    /\ \E c \in CredsOptions : ClientNew(c)
    /\ HostClosed

\* GitHub::releases(owner, repo) up to req.send(): the endpoint and the
\* request of cached_get.
ReleasesSend ==
    /\ gh_pc = "idle"
    /\ Len(fetched) < MaxFetches
    /\ \E owner \in Owners, repo \in Repos :
        req' = BuildRequest(creds, etags, Endpoint(owner, repo))
    /\ gh_pc' = "sent"
    /\ UNCHANGED <<creds, etags, rsp, fetched, fs, host>>

\* req.send() returns what the server or the network makes of the request.
SendReturns ==
    /\ gh_pc = "sent"
    /\ rsp' \in Responses
    /\ gh_pc' = "received"
    /\ UNCHANGED <<creds, etags, req, fetched, fs, host>>

\* The rest of cached_get and of GitHub::releases.
ReleasesReturn ==
    /\ gh_pc = "received"
    /\ etags' = EtagsAfter(etags, req.endpoint, rsp)
    /\ LET result == ReleasesResult(etags, req.endpoint, rsp)
       IN /\ fetched' = Append(fetched,
                [endpoint |-> req.endpoint, req |-> req, rsp |-> rsp,
                 result |-> result])
          /\ gh_pc' = IF result.kind = "panic" THEN "panicked" ELSE "idle"
    /\ UNCHANGED <<creds, req, rsp, fs, host>>

NextClient ==
    \/ ReleasesSend
    \/ SendReturns
    \/ ReleasesReturn

SpecClient == InitClient /\ [][NextClient]_vars

\* ------------------------------------------ a host enumerating a directory

\* How many entries a host takes before it gives up.
MaxReceived == 8

\* The host opens ROOT or a TAG directory.
HostOpendir ==
    /\ pc = "idle"
    /\ h_pc = "closed"
    /\ h_dir' \in {1} \cup {release_mappings[t].id_offset.id :
                                t \in DOMAIN release_mappings}
    /\ h_offset' = 0
    /\ h_received' = <<>>
    /\ h_pc' = "paging"
    /\ UNCHANGED <<fs, gh>>

\* GhaFs::readdir(h_dir, h_offset), called by the host
HostReaddir ==
    /\ pc = "idle"
    /\ h_pc = "paging"
    /\ Len(h_received) < MaxReceived
    /\ call' = [NoCall EXCEPT !.op = "readdir", !.ino = h_dir, !.offset = h_offset]
    /\ reply' = ReaddirReply(h_dir, h_offset)
    /\ pc' = "replied"
    /\ UNCHANGED <<tree, gh, host>>

\* The host takes the reply: an empty one ends the listing, another one is
\* followed by a readdir with the offset that reply.add was given for the
\* last entry.
HostReceive ==
    /\ pc = "replied"
    /\ h_pc = "paging"
    /\ IF reply.entries = <<>>
       THEN /\ h_pc' = "done"
            /\ UNCHANGED <<h_offset, h_received>>
       ELSE /\ h_pc' = "paging"
            /\ h_offset' = reply.entries[Len(reply.entries)].offset
            /\ h_received' = h_received \o reply.entries
    /\ pc' = "idle"
    /\ call' = NoCall
    /\ reply' = NoReply
    /\ UNCHANGED <<tree, gh, h_dir>>

NextHost ==
    \/ GhaFsNew
    \/ HostOpendir
    \/ HostReaddir
    \/ HostReceive

SpecHost == Init /\ [][NextHost]_vars

\* ------------------------------------------------- the nodes of the tree

\* GhaFs::new has returned a filesystem: the handlers are being called, or
\* one of them has panicked.
Mounted == pc \in {"idle", "replied"} \/ (pc = "panicked" /\ call.op # "none")

\* The TAG nodes of the built tree, by name.
TagNodes == DOMAIN release_mappings
TagId(t) == release_mappings[t].id_offset.id
\* The ASSET nodes under TAG t, by name.
AssetNodes(t) == DOMAIN release_mappings[t].asset_mappings
AssetId(t, a) == release_mappings[t].asset_mappings[a].id

RootNode == [kind |-> "ROOT", tag |-> "", name |-> ""]
Nodes ==
    {RootNode}
    \cup {[kind |-> "TAG", tag |-> t, name |-> t] : t \in TagNodes}
    \cup UNION {{[kind |-> "ASSET", tag |-> t, name |-> a] : a \in AssetNodes(t)} :
                   t \in TagNodes}
NodeId(n) ==
    IF n.kind = "ROOT" THEN 1
    ELSE IF n.kind = "TAG" THEN TagId(n.tag)
    ELSE AssetId(n.tag, n.name)

TagIds == {TagId(t) : t \in TagNodes}
AssetIds == UNION {{AssetId(t, a) : a \in AssetNodes(t)} : t \in TagNodes}
KnownIds == {1} \cup TagIds \cup AssetIds

\* Invariant I2 of the data model: no two distinct nodes share an id.
UniqueIds == \A m, n \in Nodes : m # n => NodeId(m) # NodeId(n)

Served(op) == pc = "replied" /\ call.op = op

\* ---------------------------------------------------------------- claims

\* C1: in every built tree ROOT has id 1 and every TAG and ASSET node has an
\* id that differs from 1 and from the id of every other node of the tree.
C1_IdsUnique == Mounted => (NodeId(RootNode) = 1 /\ UniqueIds)

\* C2: for every TAG node T, lookup(1, T.name) replies with an entry whose
\* id is T's id and whose kind is Directory.
C2_LookupTag ==
    (Served("lookup") /\ call.ino = 1 /\ call.name \in TagNodes)
        => /\ reply.type = "entry"
           /\ reply.attr.ino = TagId(call.name)
           /\ reply.attr.kind = "Directory"

\* C2's case: a lookup under ROOT of the name of a TAG whose id is not
\* ROOT's has been answered with an entry.
C2_Witness ==
    /\ Served("lookup") /\ call.ino = 1 /\ call.name \in TagNodes
    /\ TagId(call.name) # 1
    /\ reply.type = "entry"

\* C3: for every ASSET node A under a TAG node T, lookup(T.id, A.name)
\* replies with an entry whose id is A's id and whose kind is RegularFile.
\* Stated for the trees whose ids are pairwise distinct, so that a violation
\* does not rest on two nodes sharing an id.
C3_LookupAsset ==
    (Served("lookup") /\ UniqueIds)
        => \A t \in TagNodes : \A a \in AssetNodes(t) :
              (call.ino = TagId(t) /\ call.name = a)
                  => /\ reply.type = "entry"
                     /\ reply.attr.ino = AssetId(t, a)
                     /\ reply.attr.kind = "RegularFile"

\* The parent of a lookup is ROOT or a known TAG, and has a child of
\* exactly the name looked up.
LookupHasChild ==
    \/ call.ino = 1 /\ call.name \in TagNodes
    \/ \E t \in TagNodes : call.ino = TagId(t) /\ call.name \in AssetNodes(t)

\* C4: lookup replies with an entry only when the parent is ROOT or a known
\* TAG with a child of exactly that name, and with ENOENT in every other
\* case.  Stated for the trees whose ids are pairwise distinct.
C4_LookupNotFound ==
    (Served("lookup") /\ UniqueIds)
        => /\ reply.type = "entry" => LookupHasChild
           /\ ~LookupHasChild => reply = ReplyError(ENOENT)

\* C5: getattr reports Directory for ROOT and for the id of a known TAG,
\* and RegularFile with the fixed declared size for the id of a known
\* ASSET.  Stated for the trees whose ids are pairwise distinct.
C5_GetattrKind ==
    (Served("getattr") /\ UniqueIds)
        => /\ call.ino \in {1} \cup TagIds
                => reply.type = "attr" /\ reply.attr.kind = "Directory"
           /\ call.ino \in AssetIds
                => /\ reply.type = "attr"
                   /\ reply.attr.kind = "RegularFile"
                   /\ reply.attr.size = FILE_SIZE

\* C6: getattr never replies ENOENT for the id of a node of the tree and
\* always replies ENOENT for an id that resolves to no node.
C6_GetattrNotFound ==
    Served("getattr")
        => /\ call.ino \in KnownIds => reply.type = "attr"
           /\ call.ino \notin KnownIds => reply = ReplyError(ENOENT)

\* The tags of the source catalog.
CatalogTags == {releases[r].tag_name : r \in 1..Len(releases)}

\* C7: readdir(1, 0) yields `.` (id 1), `..` (id 1) and then one Directory
\* entry per tag of the source catalog, each tag exactly once.  Stated for
\* the trees whose ids are pairwise distinct.
C7_ReaddirRoot ==
    (Served("readdir") /\ call.ino = 1 /\ call.offset = 0 /\ UniqueIds)
        => /\ reply.type = "dir"
           /\ Len(reply.entries) = 2 + Cardinality(CatalogTags)
           /\ reply.entries[1].name = "." /\ reply.entries[1].id = 1
           /\ reply.entries[2].name = ".." /\ reply.entries[2].id = 1
           /\ \A t \in CatalogTags :
                \E i \in 3..Len(reply.entries) :
                    /\ reply.entries[i].name = t
                    /\ reply.entries[i].kind = "Directory"

\* C8: for every known TAG X, readdir(X.id, 0) yields `.` with id X.id,
\* then `..` with id 1, then one RegularFile entry per asset of the tag
\* carrying the asset's id and name, each asset exactly once.  Stated for
\* the trees whose ids are pairwise distinct.
C8_ReaddirTag ==
    (Served("readdir") /\ call.offset = 0 /\ UniqueIds)
        => \A t \in TagNodes :
              call.ino = TagId(t)
                => /\ reply.type = "dir"
                   /\ Len(reply.entries) = 2 + Cardinality(AssetNodes(t))
                   /\ reply.entries[1].name = "." /\ reply.entries[1].id = TagId(t)
                   /\ reply.entries[2].name = ".." /\ reply.entries[2].id = 1
                   /\ \A a \in AssetNodes(t) :
                        \E i \in 3..Len(reply.entries) :
                            /\ reply.entries[i].name = a
                            /\ reply.entries[i].id = AssetId(t, a)
                            /\ reply.entries[i].kind = "RegularFile"

\* What is left of a listing after its first k entries.
SuffixAfter(listing, k) ==
    [i \in 1..(IF Len(listing) > k THEN Len(listing) - k ELSE 0) |-> listing[i + k]]

\* C9: for every id and every k >= 0, readdir(id, k) yields exactly what
\* readdir(id, 0) yields on the same tree without its first k entries.  The
\* listing is a function of the tree and of the arguments alone, the
\* iteration orders of the maps being part of the tree, so two calls with
\* the same arguments yield the same sequence.
C9_ReaddirResume ==
    (Served("readdir") /\ call.offset >= 0)
        => /\ reply.type = "dir"
           /\ reply.entries =
                SuffixAfter(ReaddirReply(call.ino, 0).entries, call.offset)

\* C9's case: a readdir of a directory with children has resumed after
\* some, but not all, of its entries.
C9_Witness ==
    /\ Served("readdir")
    /\ call.offset >= 1
    /\ Len(reply.entries) >= 2
    /\ Len(ReaddirReply(call.ino, 0).entries) = call.offset + Len(reply.entries)
    /\ \E i \in 1..Len(reply.entries) : reply.entries[i].name \notin {".", ".."}

\* C10: readdir replies ENOENT, not a successful empty listing, for every
\* id that is neither ROOT nor a known TAG.
C10_ReaddirNotFound ==
    (Served("readdir") /\ call.ino \notin {1} \cup TagIds)
        => reply = ReplyError(ENOENT)

\* A handler has run to its end on a call `op`: it replied or it panicked.
Finished(op) == pc \in {"replied", "panicked"} /\ call.op = op

\* C11: for every ASSET id and every byte offset n >= 0, read(id, n) replies
\* with the content from byte n to its end, which is empty data for n at or
\* beyond the length of the content, and never ends in an error or a crash.
\* Stated for the trees whose ids are pairwise distinct.
C11_ReadPastEnd ==
    (Finished("read") /\ UniqueIds /\ call.ino \in AssetIds /\ call.offset >= 0)
        => /\ pc = "replied"
           /\ reply.type = "data"
           /\ reply.data = SuffixAfter(Content(call.ino), call.offset)

\* C12: read replies with data only when the id is the id of a known ASSET,
\* and with ENOENT for ROOT, for every TAG id and for every id of no node.
\* Stated for the trees whose ids are pairwise distinct and for the offsets
\* inside the content, where read does not panic.
C12_ReadOnlyAssets ==
    (/\ Finished("read") /\ UniqueIds
     /\ call.offset >= 0 /\ call.offset < Len(Content(call.ino)))
        => /\ reply.type = "data" => call.ino \in AssetIds
           /\ call.ino \notin AssetIds => reply = ReplyError(ENOENT)

\* C13: no protocol call with any arguments aborts the responder: every
\* call ends in a reply and the responder can serve the next call.
C13_NeverAborts == Mounted => (pc # "panicked" /\ reply # Panicked)

\* C17: once the tree is built no call changes it: the catalog, the
\* mappings and the orders in which the maps iterate stay what GhaFs::new
\* made them, so a repeated query is answered from the same tree.
C17_TreeUnchanged == [][Mounted => tree' = tree]_vars

\* C17's case: a call has been served on a tree with two tags, one of
\* them holding assets.
C17_Witness ==
    /\ pc = "replied"
    /\ Cardinality(TagNodes) = 2
    /\ \E t \in TagNodes : AssetNodes(t) # {}

\* C18: for the empty catalog readdir(1, 0) yields exactly `.` and `..`,
\* both with id 1, and for every release without assets readdir(its TAG
\* id, 0) yields exactly `.` with the TAG id and `..` with id 1.
C18_ReaddirEmpty ==
    (Served("readdir") /\ call.offset = 0)
        => LET names == [i \in 1..Len(reply.entries) |-> reply.entries[i].name]
               ids == [i \in 1..Len(reply.entries) |-> reply.entries[i].id]
           IN /\ (releases = <<>> /\ call.ino = 1)
                    => names = <<".", "..">> /\ ids = <<1, 1>>
              /\ \A t \in TagNodes :
                    (AssetNodes(t) = {} /\ call.ino = TagId(t))
                        => names = <<".", "..">> /\ ids = <<TagId(t), 1>>

\* ------------------------------------------------- catalog client claims

\* The j-th fetch is the next fetch of the endpoint of the i-th.
NextFetchOf(i, j) ==
    /\ i < j
    /\ fetched[j].endpoint = fetched[i].endpoint
    /\ \A k \in DOMAIN fetched :
        (i < k /\ k < j) => fetched[k].endpoint # fetched[i].endpoint

\* An OK response that carries an ETag.
FreshWithValidator(r) == r.sent /\ r.status = OK /\ r.etag # {}

\* C14: after a fetch of an endpoint that got an OK response with an ETag,
\* the next fetch of that endpoint, answered NOT_MODIFIED or OK with the
\* same body, returns what the first fetch returned.
C14_SecondFetchIdentical ==
    \A i, j \in DOMAIN fetched :
        ( /\ NextFetchOf(i, j)
          /\ FreshWithValidator(fetched[i].rsp)
          /\ fetched[j].rsp.sent
          /\ \/ fetched[j].rsp.status = NOT_MODIFIED
             \/ /\ fetched[j].rsp.status = OK
                /\ fetched[j].rsp.body = fetched[i].rsp.body )
            => fetched[j].result = fetched[i].result

\* C15: etags changes only in the step that ends a fetch whose response is
\* OK with an ETag, and then the entry of the fetched endpoint becomes
\* (that ETag, that body) and every other entry stays; NOT_MODIFIED, OK
\* without an ETag, another status and a send error leave etags as it was.
C15_CacheFrame ==
    [][ /\ etags' # etags =>
            /\ gh_pc = "received"
            /\ FreshWithValidator(rsp)
            /\ DOMAIN etags' = DOMAIN etags \cup {req.endpoint}
            /\ etags'[req.endpoint] =
                    EtagCache(CHOOSE e \in rsp.etag : TRUE, rsp.body.value)
            /\ \A e \in DOMAIN etags \ {req.endpoint} : etags'[e] = etags[e]
        /\ (gh_pc = "received" /\ ~FreshWithValidator(rsp)) => etags' = etags
      ]_vars

\* Both endpoints have an entry, and a third fetch, answered OK without an
\* ETag and with another body than the entry's, has left etags as it was.
C15_Witness ==
    /\ Len(fetched) = 3
    /\ FreshWithValidator(fetched[1].rsp)
    /\ FreshWithValidator(fetched[2].rsp)
    /\ fetched[1].endpoint # fetched[2].endpoint
    /\ fetched[3].rsp.sent
    /\ fetched[3].rsp.status = OK
    /\ fetched[3].rsp.etag = {}
    /\ fetched[3].result.kind = "Ok"
    /\ etags[fetched[3].endpoint].content # fetched[3].rsp.body.value

\* C16: a fetch answered with a status other than OK and NOT_MODIFIED
\* returns an Err that carries the status, and does not panic.
C16_OtherStatusIsError ==
    \A i \in DOMAIN fetched :
        (fetched[i].rsp.sent /\ fetched[i].rsp.status \notin {OK, NOT_MODIFIED})
            => fetched[i].result = Err(<<"TransportError", fetched[i].rsp.status>>)

\* C19: a request carries If-None-Match, with the cached hash, exactly
\* when etags holds its endpoint; no entry of etags is ever removed; and a
\* NOT_MODIFIED answer to a request that carried If-None-Match never finds
\* etags without the endpoint.
C19_ValidatorIffCached ==
    /\ [](gh_pc \in {"sent", "received"} =>
            /\ req.if_none_match # {} <=> req.endpoint \in DOMAIN etags
            /\ req.endpoint \in DOMAIN etags =>
                    req.if_none_match = {etags[req.endpoint].hash})
    /\ [][DOMAIN etags \subseteq DOMAIN etags']_vars
    /\ [](\A i \in DOMAIN fetched :
            ( /\ fetched[i].rsp.sent
              /\ fetched[i].rsp.status = NOT_MODIFIED
              /\ fetched[i].req.if_none_match # {} )
                => fetched[i].result.kind # "panic")

\* A request that carried If-None-Match was answered NOT_MODIFIED, after a
\* request for an endpoint etags did not hold.
C19_Witness ==
    \E i, j \in DOMAIN fetched :
        /\ fetched[i].req.if_none_match = {}
        /\ fetched[j].req.if_none_match # {}
        /\ fetched[j].rsp.sent
        /\ fetched[j].rsp.status = NOT_MODIFIED
        /\ fetched[j].result.kind = "Ok"
        /\ fetched[j].endpoint \in DOMAIN etags

\* ------------------------------------------------------ host enumeration

\* C20: a host that pages through a directory with the offsets attached to
\* the entries receives no entry twice, and when it gets the empty reply
\* it has received the full listing.
C20_HostEnumeration ==
    UniqueIds =>
        /\ \A i, j \in DOMAIN h_received :
            i # j => h_received[i].name # h_received[j].name
        /\ h_pc = "done" => h_received = ReaddirEntries(h_dir)

====
